---- MODULE Spec2Model ----
(***************************************************************************)
(* A model of simplelru.LRU (src/simplelru/lru.go): a cost-bounded LRU     *)
(* store made of a recency list (container/list), an index from key to    *)
(* list element, and a cost accumulator, with an optional eviction         *)
(* callback.                                                               *)
(*                                                                         *)
(* List elements are heap objects: an element is an identity (a positive  *)
(* integer), elems maps each live element to the *entry it holds, the     *)
(* list is the sequence of elements from front to back, and the index     *)
(* maps a key to an element.  The program never looks at an address, so   *)
(* between operations the elements are renamed by their place in the list *)
(* (Compact): states that differ only in addresses are one state.  Costs  *)
(* are mathematical integers: the bounds keep every sum far inside int64. *)
(***************************************************************************)
EXTENDS Integers, Sequences, FiniteSets, TLC

\* ----------------------------------------------------------------- bounds
MaxCostArg == 2
MaxCeil == 2
\* The runs of one caller adding distinct keys at one cost.
MaxUniformCeil == 4
MaxAdds == 6
\* The README example: New(128), 256 keys, each of cost 2.
ReadmeCeil == 128
ReadmeAdds == 256
ReadmeCost == 2

KeySet == {1, 2, 3}
ValueSet == {"v1", "v2"}
CostArgs == 0..MaxCostArg
CeilArgs == 1..MaxCeil
ResizeArgs == (0 - 1)..MaxCeil
\* cost is an int64: Add takes a negative one as well.
SignedCostArgs == (0 - 1)..MaxCostArg
\* Go's nil: as an element or a key (both are positive here), and as a value.
Nil == 0
NilValue == "nil"

VARIABLES
  maxCost,        \* c.maxCost
  evictList,      \* c.evictList: elements, front (newest) first
  evictListCost,  \* c.evictListCost
  items,          \* c.items: key -> element
  elems,          \* heap: live element -> the entry it holds
  onEvict,        \* c.onEvict # nil
  ret,            \* the last operation: name, arguments, results
  calls,          \* the onEvict calls made by the last operation, in order
  touched,        \* history: resident keys, least recently touched first
  given,          \* history: resident key -> cost argument of its insertion
  tally,          \* a caller adding keys at one cost: its count and its sum
  procs,          \* concurrent callers: each one's call, place in it and locals
  mutex,          \* the callers' lock: whether they use one, and who holds it
  links,          \* c.evictList as container/list lays it out (concurrent callers)
  writers         \* the goroutines inside a write of c.items (concurrent callers)

vars == <<maxCost, evictList, evictListCost, items, elems, onEvict, ret, calls,
          touched, given, tally, procs, mutex, links, writers>>

\* ------------------------------------------------------- sequence helpers
Range(s) == {s[i] : i \in 1..Len(s)}

Without(s, x) == SelectSeq(s, LAMBDA y : y # x)

Reverse(s) == [i \in 1..Len(s) |-> s[Len(s) + 1 - i]]

Restrict(f, S) == [x \in S |-> f[x]]

Extend(f, x, y) == [z \in DOMAIN f \cup {x} |-> IF z = x THEN y ELSE f[z]]

\* All orders in which a finite set can be enumerated.
Orders(S) == {s \in [1..Cardinality(S) -> S] : Range(s) = S}

\* ------------------------------------------------------ container/list
ListPushFront(l, e) == <<e>> \o l

ListRemove(l, e) == Without(l, e)

ListMoveToFront(l, e) == IF e \in Range(l) THEN <<e>> \o Without(l, e) ELSE l

ListBack(l) == IF l = <<>> THEN Nil ELSE l[Len(l)]

ListInit == <<>>

\* ------------------------------------------------------------ the store
\* The *LRU and the heap it reaches, with the callback log, as one value.
Store ==
  [maxCost |-> maxCost, evictList |-> evictList, evictListCost |-> evictListCost,
   items |-> items, elems |-> elems, onEvict |-> onEvict, calls |-> <<>>]

NewElem(c) == CHOOSE e \in 1..(Cardinality(DOMAIN c.elems) + 1) : e \notin DOMAIN c.elems

\* A ceiling that is not positive gives an error and no store.
NewLRU(m, cb) ==
  [c |-> [maxCost |-> m, evictList |-> ListInit, evictListCost |-> 0,
          items |-> <<>>, elems |-> <<>>, onEvict |-> cb, calls |-> <<>>],
   err |-> m <= 0]

\* One call of the callback: its arguments, and what the store shows then.
CallRecord(c, e) ==
  [key |-> e.key, value |-> e.value, cost |-> e.cost,
   total |-> c.evictListCost, ceiling |-> c.maxCost,
   resident |-> e.key \in DOMAIN c.items, len |-> Len(c.evictList)]

callOnEvict(c, e) ==
  IF ~c.onEvict THEN c
  ELSE [c EXCEPT !.calls = Append(@, CallRecord(c, e))]

\* Variant: the index entry is not deleted.
removeElementKeepsIndex(c, e) ==
  LET kv == c.elems[e]
      c1 == [c EXCEPT !.evictList = ListRemove(@, e),
                      !.evictListCost = @ - kv.cost]
  IN callOnEvict(c1, kv)

\* Variant: the callback is not called.
removeElementSilent(c, e) ==
  LET kv == c.elems[e]
  IN [c EXCEPT !.evictList = ListRemove(@, e),
               !.items = Restrict(@, DOMAIN @ \ {kv.key}),
               !.evictListCost = @ - kv.cost,
               !.elems = Restrict(@, DOMAIN @ \ {e})]

\* Variant: the callback is called before the entry is taken out.
removeElementCallsFirst(c, e) ==
  LET kv == c.elems[e]
      c1 == callOnEvict(c, kv)
  IN [c1 EXCEPT !.evictList = ListRemove(@, e),
                !.items = Restrict(@, DOMAIN @ \ {kv.key}),
                !.evictListCost = @ - kv.cost,
                !.elems = Restrict(@, DOMAIN @ \ {e})]

removeElement(c, e) ==
  LET kv == c.elems[e]
      c1 == [c EXCEPT !.evictList = ListRemove(@, e),
                      !.items = Restrict(@, DOMAIN @ \ {kv.key}),
                      !.evictListCost = @ - kv.cost,
                      !.elems = Restrict(@, DOMAIN @ \ {e})]
  IN callOnEvict(c1, kv)

removeOldest(c) ==
  LET ent == ListBack(c.evictList)
  IN IF ent # Nil THEN removeElement(c, ent) ELSE c

\* Variant: `if` in place of `for`, at most one entry is evicted.
EvictOnce(c, evicted) ==
  IF c.evictListCost > c.maxCost /\ c.evictList # <<>>
  THEN [c |-> removeOldest(c), evicted |-> evicted + 1, outcome |-> "ok"]
  ELSE [c |-> c, evicted |-> evicted, outcome |-> "ok"]

\* Variant: the loop test is >= in place of >.
RECURSIVE EvictLoopEager(_, _)
EvictLoopEager(c, evicted) ==
  IF c.evictListCost >= c.maxCost
  THEN IF c.evictList = <<>>
       THEN [c |-> c, evicted |-> evicted, outcome |-> "ok"]
       ELSE EvictLoopEager(removeOldest(c), evicted + 1)
  ELSE [c |-> c, evicted |-> evicted, outcome |-> "ok"]

\* for c.evictListCost > c.maxCost { evicted++; c.removeOldest() }
\* With nothing left to remove the loop never ends: outcome "hang".
RECURSIVE EvictLoop(_, _)
EvictLoop(c, evicted) ==
  IF c.evictListCost > c.maxCost
  THEN IF c.evictList = <<>>
       THEN [c |-> c, evicted |-> evicted, outcome |-> "hang"]
       ELSE EvictLoop(removeOldest(c), evicted + 1)
  ELSE [c |-> c, evicted |-> evicted, outcome |-> "ok"]

\* Variant: a re-Add takes the new cost and adjusts the accumulator by the difference.
AddOpUpdatesCost(c, key, value, cost) ==
  IF key \in DOMAIN c.items
  THEN LET ent == c.items[key]
       IN [c |-> [c EXCEPT !.evictList = ListMoveToFront(@, ent),
                           !.elems[ent].value = value,
                           !.evictListCost = @ + cost - c.elems[ent].cost,
                           !.elems[ent].cost = cost],
           evicted |-> 0, outcome |-> "ok"]
  ELSE IF cost > c.maxCost
  THEN [c |-> c, evicted |-> 0, outcome |-> "panic"]
  ELSE LET e == NewElem(c)
           c1 == [c EXCEPT !.evictList = ListPushFront(@, e),
                           !.elems = Extend(@, e, [key |-> key, value |-> value, cost |-> cost]),
                           !.evictListCost = @ + cost,
                           !.items = Extend(@, key, e)]
       IN EvictLoop(c1, 0)

\* Variant: the new element is pushed at the back of the list.
AddOpPushesBack(c, key, value, cost) ==
  IF key \in DOMAIN c.items
  THEN LET ent == c.items[key]
       IN [c |-> [c EXCEPT !.evictList = ListMoveToFront(@, ent),
                           !.elems[ent].value = value],
           evicted |-> 0, outcome |-> "ok"]
  ELSE IF cost > c.maxCost
  THEN [c |-> c, evicted |-> 0, outcome |-> "panic"]
  ELSE LET e == NewElem(c)
           c1 == [c EXCEPT !.evictList = Append(@, e),
                           !.elems = Extend(@, e, [key |-> key, value |-> value, cost |-> cost]),
                           !.evictListCost = @ + cost,
                           !.items = Extend(@, key, e)]
       IN EvictLoop(c1, 0)

\* Variant: the size check comes before the lookup of the key.
AddOpChecksCostFirst(c, key, value, cost) ==
  IF cost > c.maxCost
  THEN [c |-> c, evicted |-> 0, outcome |-> "panic"]
  ELSE IF key \in DOMAIN c.items
  THEN LET ent == c.items[key]
       IN [c |-> [c EXCEPT !.evictList = ListMoveToFront(@, ent),
                           !.elems[ent].value = value],
           evicted |-> 0, outcome |-> "ok"]
  ELSE LET e == NewElem(c)
           c1 == [c EXCEPT !.evictList = ListPushFront(@, e),
                           !.elems = Extend(@, e, [key |-> key, value |-> value, cost |-> cost]),
                           !.evictListCost = @ + cost,
                           !.items = Extend(@, key, e)]
       IN EvictLoop(c1, 0)

\* Variant: there is no size check.
AddOpNoLimit(c, key, value, cost) ==
  IF key \in DOMAIN c.items
  THEN LET ent == c.items[key]
       IN [c |-> [c EXCEPT !.evictList = ListMoveToFront(@, ent),
                           !.elems[ent].value = value],
           evicted |-> 0, outcome |-> "ok"]
  ELSE LET e == NewElem(c)
           c1 == [c EXCEPT !.evictList = ListPushFront(@, e),
                           !.elems = Extend(@, e, [key |-> key, value |-> value, cost |-> cost]),
                           !.evictListCost = @ + cost,
                           !.items = Extend(@, key, e)]
       IN EvictLoop(c1, 0)

AddOp(c, key, value, cost) ==
  IF key \in DOMAIN c.items
  THEN LET ent == c.items[key]
       IN [c |-> [c EXCEPT !.evictList = ListMoveToFront(@, ent),
                           !.elems[ent].value = value],
           evicted |-> 0, outcome |-> "ok"]
  ELSE IF cost > c.maxCost
  THEN [c |-> c, evicted |-> 0, outcome |-> "panic"]
  ELSE LET e == NewElem(c)
           c1 == [c EXCEPT !.evictList = ListPushFront(@, e),
                           !.elems = Extend(@, e, [key |-> key, value |-> value, cost |-> cost]),
                           !.evictListCost = @ + cost,
                           !.items = Extend(@, key, e)]
       IN EvictLoop(c1, 0)

\* Variant: a hit does not move the element.
GetOpNoPromote(c, key) ==
  IF key \in DOMAIN c.items
  THEN [c |-> c, value |-> c.elems[c.items[key]].value, ok |-> TRUE]
  ELSE [c |-> c, value |-> NilValue, ok |-> FALSE]

\* Variant: a hit moves the element to the back.
GetOpMoveToBack(c, key) ==
  IF key \in DOMAIN c.items
  THEN LET ent == c.items[key]
       IN [c |-> [c EXCEPT !.evictList = Append(ListRemove(@, ent), ent)],
           value |-> c.elems[ent].value, ok |-> TRUE]
  ELSE [c |-> c, value |-> NilValue, ok |-> FALSE]

\* Every element holds a non-nil *entry, so the nil test of a hit never fires.
GetOp(c, key) ==
  IF key \in DOMAIN c.items
  THEN LET ent == c.items[key]
       IN [c |-> [c EXCEPT !.evictList = ListMoveToFront(@, ent)],
           value |-> c.elems[ent].value, ok |-> TRUE]
  ELSE [c |-> c, value |-> NilValue, ok |-> FALSE]

ContainsOp(c, key) == key \in DOMAIN c.items

\* Variant: a hit moves the element to the front, as Get does.
PeekOpPromotes(c, key) ==
  IF key \in DOMAIN c.items
  THEN [c |-> [c EXCEPT !.evictList = ListMoveToFront(@, c.items[key])],
        value |-> c.elems[c.items[key]].value, ok |-> TRUE]
  ELSE [c |-> c, value |-> NilValue, ok |-> FALSE]

PeekOp(c, key) ==
  IF key \in DOMAIN c.items
  THEN [c |-> c, value |-> c.elems[c.items[key]].value, ok |-> TRUE]
  ELSE [c |-> c, value |-> NilValue, ok |-> FALSE]

\* Variant: the oldest element is removed in place of the key's element.
RemoveOpOldest(c, key) ==
  IF key \in DOMAIN c.items
  THEN [c |-> removeOldest(c), present |-> TRUE]
  ELSE [c |-> c, present |-> FALSE]

RemoveOp(c, key) ==
  IF key \in DOMAIN c.items
  THEN [c |-> removeElement(c, c.items[key]), present |-> TRUE]
  ELSE [c |-> c, present |-> FALSE]

\* Variant: the front element is taken in place of the back one.
RemoveOldestOpFront(c) ==
  LET ent == IF c.evictList = <<>> THEN Nil ELSE Head(c.evictList)
  IN IF ent # Nil
     THEN [c |-> removeElement(c, ent), key |-> c.elems[ent].key,
           value |-> c.elems[ent].value, ok |-> TRUE]
     ELSE [c |-> c, key |-> Nil, value |-> NilValue, ok |-> FALSE]

RemoveOldestOp(c) ==
  LET ent == ListBack(c.evictList)
  IN IF ent # Nil
     THEN [c |-> removeElement(c, ent), key |-> c.elems[ent].key,
           value |-> c.elems[ent].value, ok |-> TRUE]
     ELSE [c |-> c, key |-> Nil, value |-> NilValue, ok |-> FALSE]

GetOldestOp(c) ==
  LET ent == ListBack(c.evictList)
  IN IF ent # Nil
     THEN [key |-> c.elems[ent].key, value |-> c.elems[ent].value, ok |-> TRUE]
     ELSE [key |-> Nil, value |-> NilValue, ok |-> FALSE]

\* keys has len(c.items) slots and is filled walking the list from the back.
KeysOp(c) ==
  LET n == Cardinality(DOMAIN c.items)
      walk == Reverse(c.evictList)
  IN IF Len(walk) > n
     THEN [keys |-> <<>>, outcome |-> "panic"]
     ELSE [keys |-> [i \in 1..n |-> IF i <= Len(walk) THEN c.elems[walk[i]].key ELSE Nil],
           outcome |-> "ok"]

LenOp(c) == Len(c.evictList)

CostOp(c) == c.evictListCost

\* Variant: the ceiling is assigned before it is tested.
ResizeOpSetsFirst(c, m) ==
  IF m <= 0
  THEN [c |-> [c EXCEPT !.maxCost = m], evicted |-> 0, outcome |-> "panic"]
  ELSE EvictLoop([c EXCEPT !.maxCost = m], 0)

\* Variant: the ceiling is set and nothing is evicted.
ResizeOpNoEvict(c, m) ==
  IF m <= 0
  THEN [c |-> c, evicted |-> 0, outcome |-> "panic"]
  ELSE [c |-> [c EXCEPT !.maxCost = m], evicted |-> 0, outcome |-> "ok"]

ResizeOp(c, m) ==
  IF m <= 0
  THEN [c |-> c, evicted |-> 0, outcome |-> "panic"]
  ELSE EvictLoop([c EXCEPT !.maxCost = m], 0)

\* Variant: the key is deleted from the index before the callback is called.
RECURSIVE PurgeLoopDeletesFirst(_, _)
PurgeLoopDeletesFirst(c, order) ==
  IF order = <<>> THEN c
  ELSE LET k == Head(order)
           en == c.elems[c.items[k]]
           c1 == [c EXCEPT !.items = Restrict(@, DOMAIN @ \ {k})]
       IN PurgeLoopDeletesFirst(callOnEvict(c1, en), Tail(order))

\* for k, v := range c.items, in the order `order`; then the resets.
RECURSIVE PurgeLoop(_, _)
PurgeLoop(c, order) ==
  IF order = <<>> THEN c
  ELSE LET k == Head(order)
           c1 == callOnEvict(c, c.elems[c.items[k]])
       IN PurgeLoop([c1 EXCEPT !.items = Restrict(@, DOMAIN @ \ {k})], Tail(order))

\* Variant: the accumulator is not reset.
PurgeOpKeepsCost(c, order) ==
  [PurgeLoop(c, order) EXCEPT !.evictList = ListInit, !.elems = <<>>]

PurgeOp(c, order) ==
  [PurgeLoop(c, order) EXCEPT !.evictList = ListInit,
                              !.evictListCost = 0,
                              !.elems = <<>>]

\* The same heap with every element renamed by its place in the list, the
\* live elements outside the list (none in this program) following in order.
Compact(c) ==
  LET l == c.evictList
      rest == DOMAIN c.elems \ Range(l)
      place(e) == IF e \in Range(l)
                  THEN CHOOSE i \in 1..Len(l) : l[i] = e
                  ELSE Len(l) + Cardinality({o \in rest : o <= e})
      old(i) == IF i <= Len(l) THEN l[i]
                ELSE CHOOSE o \in rest : place(o) = i
  IN [c EXCEPT !.evictList = [i \in 1..Len(l) |-> place(l[i])],
               !.elems = [i \in 1..(Len(l) + Cardinality(rest)) |-> c.elems[old(i)]],
               !.items = [k \in DOMAIN c.items |-> place(c.items[k])]]

\* ------------------------------------------------------------- history
\* The resident keys are those of the index.
Touch(h, k) == Append(Without(h, k), k)

Settle(h, c) == SelectSeq(h, LAMBDA k : k \in DOMAIN c.items)

\* ------------------------------------------------------------- actions
Commit(c) ==
  /\ maxCost' = c.maxCost
  /\ evictList' = Compact(c).evictList
  /\ evictListCost' = c.evictListCost
  /\ items' = Compact(c).items
  /\ elems' = Compact(c).elems
  /\ onEvict' = c.onEvict
  /\ calls' = c.calls

\* op and its arguments (key, value, cost, or the ceiling m), then how it ended
\* (outcome) and what it returned (n, ok, key, value, keys).
Result(op, key, value, cost, outcome, n, ok, keys) ==
  [op |-> op, key |-> key, value |-> value,
   cost |-> IF op = "Add" THEN cost ELSE 0,
   m |-> IF op \in {"NewLRU", "Resize"} THEN cost ELSE 0,
   outcome |-> outcome, n |-> n, ok |-> ok, keys |-> keys]

Running == ret.outcome # "hang"

\* One caller at a time, calling whatever it likes.
NoTally == [c |-> 0, n |-> 0, sum |-> 0, adds |-> 0]

NoMutex == [used |-> FALSE, holder |-> Nil]

\* The list as a sequence is all one caller can tell of it.
NoLinks == <<>>

Sequential == UNCHANGED <<tally, procs, mutex, links, writers>>

Init ==
  /\ \E m \in CeilArgs, cb \in BOOLEAN :
       LET c == NewLRU(m, cb).c
       IN /\ ~NewLRU(m, cb).err
          /\ maxCost = c.maxCost
          /\ evictList = c.evictList
          /\ evictListCost = c.evictListCost
          /\ items = c.items
          /\ elems = c.elems
          /\ onEvict = c.onEvict
          /\ calls = c.calls
          /\ ret = Result("NewLRU", Nil, NilValue, m, "ok", 0, TRUE, <<>>)
  /\ touched = <<>>
  /\ given = <<>>
  /\ tally = NoTally
  /\ procs = <<>>
  /\ mutex = NoMutex
  /\ links = NoLinks
  /\ writers = {}

Add(key, value, cost) ==
  /\ Running
  /\ Sequential
  /\ LET r == AddOp(Store, key, value, cost)
         fresh == key \notin DOMAIN items /\ r.outcome # "panic"
     IN /\ Commit(r.c)
        /\ ret' = Result("Add", key, value, cost, r.outcome, r.evicted, TRUE, <<>>)
        /\ touched' = IF r.outcome = "panic" THEN touched
                      ELSE Settle(Touch(touched, key), r.c)
        /\ given' = Restrict(IF fresh THEN Extend(given, key, cost) ELSE given,
                             DOMAIN r.c.items)

Get(key) ==
  /\ Running
  /\ Sequential
  /\ LET r == GetOp(Store, key)
     IN /\ Commit(r.c)
        /\ ret' = Result("Get", key, r.value, 0, "ok", 0, r.ok, <<>>)
        /\ touched' = IF r.ok THEN Touch(touched, key) ELSE touched
        /\ UNCHANGED given

Contains(key) ==
  /\ Running
  /\ Sequential
  /\ Commit(Store)
  /\ ret' = Result("Contains", key, NilValue, 0, "ok", 0, ContainsOp(Store, key), <<>>)
  /\ UNCHANGED <<touched, given>>

Peek(key) ==
  /\ Running
  /\ Sequential
  /\ LET r == PeekOp(Store, key)
     IN /\ Commit(r.c)
        /\ ret' = Result("Peek", key, r.value, 0, "ok", 0, r.ok, <<>>)
  /\ UNCHANGED <<touched, given>>

Remove(key) ==
  /\ Running
  /\ Sequential
  /\ LET r == RemoveOp(Store, key)
     IN /\ Commit(r.c)
        /\ ret' = Result("Remove", key, NilValue, 0, "ok", 0, r.present, <<>>)
        /\ touched' = Settle(touched, r.c)
        /\ given' = Restrict(given, DOMAIN given \cap DOMAIN r.c.items)

RemoveOldest ==
  /\ Running
  /\ Sequential
  /\ LET r == RemoveOldestOp(Store)
     IN /\ Commit(r.c)
        /\ ret' = Result("RemoveOldest", r.key, r.value, 0, "ok", 0, r.ok, <<>>)
        /\ touched' = Settle(touched, r.c)
        /\ given' = Restrict(given, DOMAIN given \cap DOMAIN r.c.items)

GetOldest ==
  /\ Running
  /\ Sequential
  /\ LET r == GetOldestOp(Store)
     IN /\ Commit(Store)
        /\ ret' = Result("GetOldest", r.key, r.value, 0, "ok", 0, r.ok, <<>>)
  /\ UNCHANGED <<touched, given>>

Keys ==
  /\ Running
  /\ Sequential
  /\ LET r == KeysOp(Store)
     IN /\ Commit(Store)
        /\ ret' = Result("Keys", Nil, NilValue, 0, r.outcome, 0, TRUE, r.keys)
  /\ UNCHANGED <<touched, given>>

LenCall ==
  /\ Running
  /\ Sequential
  /\ Commit(Store)
  /\ ret' = Result("Len", Nil, NilValue, 0, "ok", LenOp(Store), TRUE, <<>>)
  /\ UNCHANGED <<touched, given>>

Cost ==
  /\ Running
  /\ Sequential
  /\ Commit(Store)
  /\ ret' = Result("Cost", Nil, NilValue, 0, "ok", CostOp(Store), TRUE, <<>>)
  /\ UNCHANGED <<touched, given>>

Resize(m) ==
  /\ Running
  /\ Sequential
  /\ LET r == ResizeOp(Store, m)
     IN /\ Commit(r.c)
        /\ ret' = Result("Resize", Nil, NilValue, m, r.outcome, r.evicted, TRUE, <<>>)
        /\ touched' = Settle(touched, r.c)
        /\ given' = Restrict(given, DOMAIN given \cap DOMAIN r.c.items)

Purge ==
  /\ Running
  /\ Sequential
  /\ \E order \in Orders(DOMAIN items) :
       LET c == PurgeOp(Store, order)
       IN /\ Commit(c)
          /\ ret' = Result("Purge", Nil, NilValue, 0, "ok", 0, TRUE, <<>>)
          /\ touched' = Settle(touched, c)
          /\ given' = Restrict(given, DOMAIN given \cap DOMAIN c.items)

Next ==
  \/ \E key \in KeySet, value \in ValueSet, cost \in CostArgs : Add(key, value, cost)
  \/ \E key \in KeySet : Get(key)
  \/ \E key \in KeySet : Contains(key)
  \/ \E key \in KeySet : Peek(key)
  \/ \E key \in KeySet : Remove(key)
  \/ RemoveOldest
  \/ GetOldest
  \/ Keys
  \/ LenCall
  \/ Cost
  \/ \E m \in ResizeArgs : Resize(m)
  \/ Purge

Spec == Init /\ [][Next]_vars

\* The same store, its callers passing Add any int64 cost (and one value).
NextSigned ==
  \/ \E key \in KeySet, cost \in SignedCostArgs : Add(key, "v1", cost)
  \/ \E key \in KeySet : Get(key)
  \/ \E key \in KeySet : Contains(key)
  \/ \E key \in KeySet : Peek(key)
  \/ \E key \in KeySet : Remove(key)
  \/ RemoveOldest
  \/ GetOldest
  \/ Keys
  \/ LenCall
  \/ Cost
  \/ \E m \in ResizeArgs : Resize(m)
  \/ Purge

SpecSigned == Init /\ [][NextSigned]_vars

\* One caller on a fresh store: for i := 0; i < adds; i++ { l.Add(i, nil, c) },
\* summing what the Adds return.  The keys are 1, 2, ... in the order added.
UniformRuns ==
  {[m |-> m, c |-> c, adds |-> MaxAdds] : m \in 1..MaxUniformCeil, c \in 1..MaxUniformCeil}
    \cup {[m |-> ReadmeCeil, c |-> ReadmeCost, adds |-> ReadmeAdds]}

InitUniform ==
  \E run \in UniformRuns, cb \in BOOLEAN :
    LET c == NewLRU(run.m, cb).c
    IN /\ run.c <= run.m
       /\ maxCost = c.maxCost
       /\ evictList = c.evictList
       /\ evictListCost = c.evictListCost
       /\ items = c.items
       /\ elems = c.elems
       /\ onEvict = c.onEvict
       /\ calls = c.calls
       /\ ret = Result("NewLRU", Nil, NilValue, run.m, "ok", 0, TRUE, <<>>)
       /\ touched = <<>>
       /\ given = <<>>
       /\ tally = [c |-> run.c, n |-> 0, sum |-> 0, adds |-> run.adds]
       /\ procs = <<>>
       /\ mutex = NoMutex
       /\ links = NoLinks
       /\ writers = {}

AddNext ==
  /\ Running
  /\ tally.n < tally.adds
  /\ LET key == tally.n + 1
         r == AddOp(Store, key, NilValue, tally.c)
     IN /\ Commit(r.c)
        /\ ret' = Result("Add", key, NilValue, tally.c, r.outcome, r.evicted, TRUE, <<>>)
        /\ tally' = [tally EXCEPT !.n = key, !.sum = @ + r.evicted]
  /\ UNCHANGED <<touched, given, procs, mutex, links, writers>>

SpecUniform == InitUniform /\ [][AddNext]_vars

\* ------------------------------------------------- concurrent callers
\* Two goroutines, each making one call of Add or Remove on the same store,
\* with or without a sync.Mutex of their own around the call.  A step is one
\* load or one store of a field two goroutines can reach: of the LRU, or of
\* the list inside the calls lru.go makes of container/list (PushFront,
\* MoveToFront, Remove, Back), the list laid out as container/list has it
\* (links).  A statement loads its operands (into x, y or tmp), then
\* stores; Go fixes no order between the two loads of one assignment, so
\* either may come first.  A write of the map begins, ends with the key in and
\* the write flag cleared, and only then is the element stored in the
\* key's slot; an access of the map that finds another goroutine inside a
\* write is a data race the runtime may or may not catch: the program dies
\* with a fatal error, or the access goes on.  A nil pointer dereferenced,
\* or the sentinel taken for an entry, panics the call.  Removed elements stay on the heap, a goroutine may
\* still hold one.  No callback is installed, and the values the calls
\* return are left out.
ConcProcs == {1, 2}

ConcKeys == {1, 2}

\* &l.root, the sentinel of the list.
Root == 0 - 1

\* list.New(), then the elements of s pushed so that s is front to back.
LinksOf(s) ==
  LET at(i) == IF i < 1 \/ i > Len(s) THEN Root ELSE s[i]
      place(e) == CHOOSE i \in 1..Len(s) : s[i] = e
  IN [len |-> Len(s),
      next |-> [e \in {Root} \cup Range(s) |->
                  IF e = Root THEN at(1) ELSE at(place(e) + 1)],
      prev |-> [e \in {Root} \cup Range(s) |->
                  IF e = Root THEN at(Len(s)) ELSE at(place(e) - 1)],
      list |-> [e \in {Root} \cup Range(s) |-> e # Root]]

ConcCalls ==
  {[op |-> "Add", key |-> k, cost |-> c, pc |-> "start", ent |-> Nil, tmp |-> 0,
    x |-> Nil, y |-> Nil, outcome |-> "ok"] : k \in ConcKeys, c \in CeilArgs}
    \cup {[op |-> "Remove", key |-> k, cost |-> 0, pc |-> "start", ent |-> Nil,
           tmp |-> 0, x |-> Nil, y |-> Nil, outcome |-> "ok"] : k \in ConcKeys}

InitConc ==
  /\ \E m \in CeilArgs, filled \in BOOLEAN :
       LET c0 == NewLRU(m, FALSE).c
           c == IF filled THEN AddOp(c0, 1, "v1", 1).c ELSE c0
       IN /\ maxCost = c.maxCost
          /\ evictList = ListInit
          /\ links = LinksOf(c.evictList)
          /\ evictListCost = c.evictListCost
          /\ items = c.items
          /\ elems = c.elems
          /\ onEvict = c.onEvict
          /\ calls = <<>>
          /\ ret = Result("NewLRU", Nil, NilValue, m, "ok", 0, TRUE, <<>>)
  /\ touched = <<>>
  /\ given = <<>>
  /\ tally = NoTally
  /\ writers = {}
  /\ procs \in [ConcProcs -> ConcCalls]
  /\ \E used \in BOOLEAN : mutex = [used |-> used, holder |-> Nil]

\* &Element{Value: v}: the address of the element goroutine p allocates,
\* fresh whatever the other goroutine has allocated (a call allocates at
\* most once, and the store starts with at most the element 1).
NewElemOf(p) == 1 + p

\* The program runs until a fatal error ends it.
Alive == \A q \in ConcProcs : procs[q].pc # "fatal"

At(p, pc) == procs[p].pc = pc /\ Alive

\* On to the next step, the operands of the last statement dropped.
Goto(p, pc) ==
  procs' = [procs EXCEPT ![p].pc = pc, ![p].x = Nil, ![p].y = Nil, ![p].tmp = 0]

\* On to the next step, the element held no longer used.
Leave(p, pc) ==
  procs' = [procs EXCEPT ![p].pc = pc, ![p].ent = Nil, ![p].x = Nil, ![p].y = Nil,
                         ![p].tmp = 0]

\* On to the next step of a statement, holding the operands loaded so far.
Hold(p, pc, x, y) == procs' = [procs EXCEPT ![p].pc = pc, ![p].x = x, ![p].y = y]

\* A run-time panic unwinds the call.
Panics(p) ==
  procs' = [procs EXCEPT ![p].outcome = "panic", ![p].pc = "ret", ![p].ent = Nil,
                         ![p].x = Nil, ![p].y = Nil, ![p].tmp = 0]

\* fatal error: concurrent map read and map write / concurrent map writes
Fatal(p) == procs' = [procs EXCEPT ![p].outcome = "fatal", ![p].pc = "fatal"]

\* In SpecConc the list is links; evictList stands unused.
ConcFrame ==
  UNCHANGED <<maxCost, onEvict, ret, calls, touched, given, tally, evictList>>

\* The store of a statement of container/list: it dereferences ptr and
\* leaves the list as l, or panics on a nil ptr.
ListStmt(p, from, to, ptr, l) ==
  /\ At(p, from)
  /\ IF ptr = Nil
     THEN links' = links /\ Panics(p)
     ELSE links' = l /\ Goto(p, to)
  /\ ConcFrame
  /\ UNCHANGED <<evictListCost, items, elems, mutex, writers>>

\* A step that reads shared state and writes only the goroutine's own.
Local(p) ==
  /\ ConcFrame
  /\ UNCHANGED <<links, evictListCost, items, elems, mutex, writers>>

\* A load of a statement of container/list.
LoadStmt(p, from, to, x, y) ==
  /\ At(p, from)
  /\ Hold(p, to, x, y)
  /\ Local(p)

\* mu.Lock() where the callers use a mutex, then the call.
Call(p) ==
  /\ At(p, "start")
  /\ mutex.used => mutex.holder = Nil
  /\ mutex' = IF mutex.used THEN [mutex EXCEPT !.holder = p] ELSE mutex
  /\ Goto(p, IF procs[p].op = "Add" THEN "lookup" ELSE "find")
  /\ ConcFrame
  /\ UNCHANGED <<links, evictListCost, items, elems, writers>>

\* The return (or the panic unwinding), then mu.Unlock().
Return(p) ==
  /\ At(p, "ret")
  /\ mutex' = IF mutex.used THEN [mutex EXCEPT !.holder = Nil] ELSE mutex
  /\ Goto(p, "done")
  /\ ConcFrame
  /\ UNCHANGED <<links, evictListCost, items, elems, writers>>

\* Add: if ent, ok := c.items[key]; ok { ... }; if cost > c.maxCost { panic }
AddLookup(p) ==
  /\ At(p, "lookup")
  /\ \/ /\ writers \ {p} # {}
        /\ Fatal(p)
     \/ procs' = IF procs[p].key \in DOMAIN items
                 THEN [procs EXCEPT ![p].ent = items[procs[p].key], ![p].pc = "promote"]
                 ELSE IF procs[p].cost > maxCost
                 THEN [procs EXCEPT ![p].outcome = "panic", ![p].pc = "ret"]
                 ELSE [procs EXCEPT ![p].pc = "push"]
  /\ Local(p)

\* Add: c.evictList.MoveToFront(ent): if e.list != l { return }, a panic
\* for the nil element of a slot not yet stored
AddPromote(p) ==
  /\ At(p, "promote")
  /\ IF procs[p].ent = Nil THEN Panics(p)
     ELSE Goto(p, IF ~links.list[procs[p].ent] THEN "assign" ELSE "promote.1")
  /\ Local(p)

\* MoveToFront: if ... || l.root.next == e { return }
AddPromoteFront(p) ==
  /\ At(p, "promote.1")
  /\ Goto(p, IF links.next[Root] = procs[p].ent THEN "assign" ELSE "move1")
  /\ Local(p)

\* l.move(e, &l.root): e.prev.next = e.next, the load of e.prev,
\* before or after the statement's other load
Move1LoadPrev(p) ==
  \/ LoadStmt(p, "move1", "move1.l", links.prev[procs[p].ent], Nil)
  \/ LoadStmt(p, "move1.r", "move1.2", links.prev[procs[p].ent], procs[p].y)

\* l.move: e.prev.next = e.next, the load of e.next,
\* before or after the statement's other load
Move1LoadNext(p) ==
  \/ LoadStmt(p, "move1", "move1.r", Nil, links.next[procs[p].ent])
  \/ LoadStmt(p, "move1.l", "move1.2", procs[p].x, links.next[procs[p].ent])

\* l.move: e.prev.next = e.next, the store
Move1(p) ==
  ListStmt(p, "move1.2", "move2", procs[p].x,
           [links EXCEPT !.next[procs[p].x] = procs[p].y])

\* l.move: e.next.prev = e.prev, the load of e.next,
\* before or after the statement's other load
Move2LoadNext(p) ==
  \/ LoadStmt(p, "move2", "move2.l", links.next[procs[p].ent], Nil)
  \/ LoadStmt(p, "move2.r", "move2.2", links.next[procs[p].ent], procs[p].y)

\* l.move: e.next.prev = e.prev, the load of e.prev,
\* before or after the statement's other load
Move2LoadPrev(p) ==
  \/ LoadStmt(p, "move2", "move2.r", Nil, links.prev[procs[p].ent])
  \/ LoadStmt(p, "move2.l", "move2.2", procs[p].x, links.prev[procs[p].ent])

\* l.move: e.next.prev = e.prev, the store
Move2(p) ==
  ListStmt(p, "move2.2", "move3", procs[p].x,
           [links EXCEPT !.prev[procs[p].x] = procs[p].y])

\* l.move: e.prev = at
Move3(p) ==
  ListStmt(p, "move3", "move4", Root, [links EXCEPT !.prev[procs[p].ent] = Root])

\* l.move: e.next = at.next, the load of at.next
Move4Load(p) ==
  LoadStmt(p, "move4", "move4.1", links.next[Root], Nil)

\* l.move: e.next = at.next, the store
Move4(p) ==
  ListStmt(p, "move4.1", "move5", Root,
           [links EXCEPT !.next[procs[p].ent] = procs[p].x])

\* l.move: e.prev.next = e, the load of e.prev
Move5Load(p) ==
  LoadStmt(p, "move5", "move5.1", links.prev[procs[p].ent], Nil)

\* l.move: e.prev.next = e, the store
Move5(p) ==
  ListStmt(p, "move5.1", "move6", procs[p].x,
           [links EXCEPT !.next[procs[p].x] = procs[p].ent])

\* l.move: e.next.prev = e, the load of e.next
Move6Load(p) ==
  LoadStmt(p, "move6", "move6.1", links.next[procs[p].ent], Nil)

\* l.move: e.next.prev = e, the store
Move6(p) ==
  ListStmt(p, "move6.1", "assign", procs[p].x,
           [links EXCEPT !.prev[procs[p].x] = procs[p].ent])

\* Add: ent.Value.(*entry).value = value; return 0
AddAssign(p) ==
  /\ At(p, "assign")
  /\ elems' = [elems EXCEPT ![procs[p].ent].value = "v2"]
  /\ Leave(p, "ret")
  /\ ConcFrame
  /\ UNCHANGED <<links, evictListCost, items, mutex, writers>>

\* Add: ent := &entry{key, value, cost}; c.evictList.PushFront(ent):
\*   l.lazyInit(); e := &Element{Value: v}; l.insert(e, &l.root): e.prev = at
\* The new element is the goroutine's own until insert links it.
AddPush(p) ==
  /\ At(p, "push")
  /\ LET e == NewElemOf(p)
         l == IF links.next[Root] = Nil
              THEN [links EXCEPT !.next[Root] = Root, !.prev[Root] = Root, !.len = 0]
              ELSE links
     IN /\ elems' = Extend(elems, e, [key |-> procs[p].key, value |-> "v2",
                                      cost |-> procs[p].cost])
        /\ links' = [l EXCEPT !.next = Extend(@, e, Nil),
                              !.prev = Extend(@, e, Root),
                              !.list = Extend(@, e, FALSE)]
        /\ procs' = [procs EXCEPT ![p].ent = e, ![p].pc = "insert2"]
  /\ ConcFrame
  /\ UNCHANGED <<evictListCost, items, mutex, writers>>

\* l.insert: e.next = at.next: the load of at.next, and the store into the
\* element, still the goroutine's own
Insert2(p) ==
  ListStmt(p, "insert2", "insert3", Root,
           [links EXCEPT !.next[procs[p].ent] = links.next[Root]])

\* l.insert: e.prev.next = e: e.prev is still the goroutine's own (at), the
\* store makes the element reachable
Insert3(p) ==
  LET e == procs[p].ent
  IN ListStmt(p, "insert3", "insert4", links.prev[e],
              [links EXCEPT !.next[links.prev[e]] = e])

\* l.insert: e.next.prev = e, the load of e.next
Insert4Load(p) ==
  LoadStmt(p, "insert4", "insert4.1", links.next[procs[p].ent], Nil)

\* l.insert: e.next.prev = e, the store
Insert4(p) ==
  ListStmt(p, "insert4.1", "insert5", procs[p].x,
           [links EXCEPT !.prev[procs[p].x] = procs[p].ent])

\* l.insert: e.list = l
Insert5(p) ==
  ListStmt(p, "insert5", "insert6", Root, [links EXCEPT !.list[procs[p].ent] = TRUE])

\* l.insert: l.len++, the load
Insert6Load(p) ==
  /\ At(p, "insert6")
  /\ procs' = [procs EXCEPT ![p].tmp = links.len, ![p].pc = "insert6.1"]
  /\ Local(p)

\* l.insert: l.len++, the store
Insert6(p) ==
  ListStmt(p, "insert6.1", "load", Root, [links EXCEPT !.len = procs[p].tmp + 1])

\* Add: c.evictListCost += cost, the load
AddLoad(p) ==
  /\ At(p, "load")
  /\ procs' = [procs EXCEPT ![p].tmp = evictListCost, ![p].pc = "store"]
  /\ Local(p)

\* Variant: the store writes back what was loaded.
AddStoreStale(p) ==
  /\ At(p, "store")
  /\ evictListCost' = procs[p].tmp
  /\ Goto(p, "index")
  /\ ConcFrame
  /\ UNCHANGED <<links, items, elems, mutex, writers>>

\* Add: c.evictListCost += cost, the store
AddStore(p) ==
  /\ At(p, "store")
  /\ evictListCost' = procs[p].tmp + procs[p].cost
  /\ Goto(p, "index")
  /\ ConcFrame
  /\ UNCHANGED <<links, items, elems, mutex, writers>>

\* Add: c.items[key] = entry, the write begins
AddIndex(p) ==
  /\ At(p, "index")
  /\ \/ /\ writers \ {p} # {}
        /\ Fatal(p)
        /\ UNCHANGED writers
     \/ /\ writers' = writers \cup {p}
        /\ Goto(p, "indexed")
  /\ ConcFrame
  /\ UNCHANGED <<links, evictListCost, items, elems, mutex>>

\* Add: c.items[key] = entry, the write ends: the key is in, a new key with
\* a nil element in its slot, and the write flag is cleared
AddIndexed(p) ==
  /\ At(p, "indexed")
  /\ items' = IF procs[p].key \in DOMAIN items THEN items
              ELSE Extend(items, procs[p].key, Nil)
  /\ writers' = writers \ {p}
  /\ Goto(p, "slot")
  /\ ConcFrame
  /\ UNCHANGED <<links, evictListCost, elems, mutex>>

\* Add: c.items[key] = entry, the store of the element in the slot; the
\* slot of a key deleted meanwhile is no longer the map's
AddSlot(p) ==
  /\ At(p, "slot")
  /\ items' = IF procs[p].key \in DOMAIN items
              THEN [items EXCEPT ![procs[p].key] = procs[p].ent]
              ELSE items
  /\ Leave(p, "test")
  /\ ConcFrame
  /\ UNCHANGED <<links, evictListCost, elems, mutex, writers>>

\* Add: for c.evictListCost > c.maxCost { evicted++; ... }; return evicted
AddTest(p) ==
  /\ At(p, "test")
  /\ Goto(p, IF evictListCost > maxCost THEN "back" ELSE "ret")
  /\ Local(p)

\* removeOldest: c.evictList.Back(): if l.len == 0 { return nil }
OldestLen(p) ==
  /\ At(p, "back")
  /\ Goto(p, IF links.len = 0 THEN "test" ELSE "back.1")
  /\ Local(p)

\* removeOldest: Back(): return l.root.prev; if ent != nil { c.removeElement(ent) }
OldestBack(p) ==
  /\ At(p, "back.1")
  /\ LET ent == links.prev[Root]
     IN procs' = [procs EXCEPT ![p].ent = ent,
                               ![p].pc = IF ent # Nil THEN "unlink" ELSE "test"]
  /\ Local(p)

\* Remove: if ent, ok := c.items[key]; ok { c.removeElement(ent); return true }
RemoveLookup(p) ==
  /\ At(p, "find")
  /\ \/ /\ writers \ {p} # {}
        /\ Fatal(p)
     \/ procs' = IF procs[p].key \in DOMAIN items
                 THEN [procs EXCEPT ![p].ent = items[procs[p].key], ![p].pc = "unlink"]
                 ELSE [procs EXCEPT ![p].pc = "ret"]
  /\ Local(p)

\* removeElement: c.evictList.Remove(e): if e.list == l { l.remove(e) }, a
\* panic for the nil element of a slot not yet stored
ElemUnlink(p) ==
  /\ At(p, "unlink")
  /\ IF procs[p].ent = Nil THEN Panics(p)
     ELSE Goto(p, IF links.list[procs[p].ent] THEN "remove1" ELSE "delete")
  /\ Local(p)

\* l.remove(e): e.prev.next = e.next, the load of e.prev,
\* before or after the statement's other load
Remove1LoadPrev(p) ==
  \/ LoadStmt(p, "remove1", "remove1.l", links.prev[procs[p].ent], Nil)
  \/ LoadStmt(p, "remove1.r", "remove1.2", links.prev[procs[p].ent], procs[p].y)

\* l.remove: e.prev.next = e.next, the load of e.next,
\* before or after the statement's other load
Remove1LoadNext(p) ==
  \/ LoadStmt(p, "remove1", "remove1.r", Nil, links.next[procs[p].ent])
  \/ LoadStmt(p, "remove1.l", "remove1.2", procs[p].x, links.next[procs[p].ent])

\* l.remove: e.prev.next = e.next, the store
Remove1(p) ==
  ListStmt(p, "remove1.2", "remove2", procs[p].x,
           [links EXCEPT !.next[procs[p].x] = procs[p].y])

\* l.remove: e.next.prev = e.prev, the load of e.next,
\* before or after the statement's other load
Remove2LoadNext(p) ==
  \/ LoadStmt(p, "remove2", "remove2.l", links.next[procs[p].ent], Nil)
  \/ LoadStmt(p, "remove2.r", "remove2.2", links.next[procs[p].ent], procs[p].y)

\* l.remove: e.next.prev = e.prev, the load of e.prev,
\* before or after the statement's other load
Remove2LoadPrev(p) ==
  \/ LoadStmt(p, "remove2", "remove2.r", Nil, links.prev[procs[p].ent])
  \/ LoadStmt(p, "remove2.l", "remove2.2", procs[p].x, links.prev[procs[p].ent])

\* l.remove: e.next.prev = e.prev, the store
Remove2(p) ==
  ListStmt(p, "remove2.2", "remove3", procs[p].x,
           [links EXCEPT !.prev[procs[p].x] = procs[p].y])

\* l.remove: e.next = nil
Remove3(p) ==
  ListStmt(p, "remove3", "remove4", Root, [links EXCEPT !.next[procs[p].ent] = Nil])

\* l.remove: e.prev = nil
Remove4(p) ==
  ListStmt(p, "remove4", "remove5", Root, [links EXCEPT !.prev[procs[p].ent] = Nil])

\* l.remove: e.list = nil
Remove5(p) ==
  ListStmt(p, "remove5", "remove6", Root, [links EXCEPT !.list[procs[p].ent] = FALSE])

\* l.remove: l.len--, the load
Remove6Load(p) ==
  /\ At(p, "remove6")
  /\ procs' = [procs EXCEPT ![p].tmp = links.len, ![p].pc = "remove6.1"]
  /\ Local(p)

\* l.remove: l.len--, the store
Remove6(p) ==
  ListStmt(p, "remove6.1", "delete", Root, [links EXCEPT !.len = procs[p].tmp - 1])

\* removeElement: kv := e.Value.(*entry), a panic for the sentinel, whose
\* Value is nil; delete(c.items, kv.key), the write begins
ElemDelete(p) ==
  /\ At(p, "delete")
  /\ \/ /\ procs[p].ent = Root
        /\ Panics(p)
        /\ UNCHANGED writers
     \/ /\ procs[p].ent # Root
        /\ writers \ {p} # {}
        /\ Fatal(p)
        /\ UNCHANGED writers
     \/ /\ procs[p].ent # Root
        /\ writers' = writers \cup {p}
        /\ Goto(p, "deleted")
  /\ ConcFrame
  /\ UNCHANGED <<links, evictListCost, items, elems, mutex>>

\* removeElement: delete(c.items, kv.key), the write ends
ElemDeleted(p) ==
  /\ At(p, "deleted")
  /\ items' = Restrict(items, DOMAIN items \ {elems[procs[p].ent].key})
  /\ writers' = writers \ {p}
  /\ Goto(p, "subload")
  /\ ConcFrame
  /\ UNCHANGED <<links, evictListCost, elems, mutex>>

\* removeElement: c.evictListCost -= kv.cost, the load
ElemLoad(p) ==
  /\ At(p, "subload")
  /\ procs' = [procs EXCEPT ![p].tmp = evictListCost, ![p].pc = "substore"]
  /\ Local(p)

\* removeElement: c.evictListCost -= kv.cost, the store; c.callOnEvict(kv)
\* finds c.onEvict nil; then back to the loop of Add, or Remove returns.
ElemStore(p) ==
  /\ At(p, "substore")
  /\ evictListCost' = procs[p].tmp - elems[procs[p].ent].cost
  /\ Leave(p, IF procs[p].op = "Add" THEN "test" ELSE "ret")
  /\ ConcFrame
  /\ UNCHANGED <<links, items, elems, mutex, writers>>

NextConc ==
  \E p \in ConcProcs :
    \/ Call(p)
    \/ Return(p)
    \/ AddLookup(p)
    \/ AddPromote(p)
    \/ AddPromoteFront(p)
    \/ Move1LoadPrev(p)
    \/ Move1LoadNext(p)
    \/ Move1(p)
    \/ Move2LoadNext(p)
    \/ Move2LoadPrev(p)
    \/ Move2(p)
    \/ Move3(p)
    \/ Move4Load(p)
    \/ Move4(p)
    \/ Move5Load(p)
    \/ Move5(p)
    \/ Move6Load(p)
    \/ Move6(p)
    \/ AddAssign(p)
    \/ AddPush(p)
    \/ Insert2(p)
    \/ Insert3(p)
    \/ Insert4Load(p)
    \/ Insert4(p)
    \/ Insert5(p)
    \/ Insert6Load(p)
    \/ Insert6(p)
    \/ AddLoad(p)
    \/ AddStore(p)
    \/ AddIndex(p)
    \/ AddIndexed(p)
    \/ AddSlot(p)
    \/ AddTest(p)
    \/ OldestLen(p)
    \/ OldestBack(p)
    \/ RemoveLookup(p)
    \/ ElemUnlink(p)
    \/ Remove1LoadPrev(p)
    \/ Remove1LoadNext(p)
    \/ Remove1(p)
    \/ Remove2LoadNext(p)
    \/ Remove2LoadPrev(p)
    \/ Remove2(p)
    \/ Remove3(p)
    \/ Remove4(p)
    \/ Remove5(p)
    \/ Remove6Load(p)
    \/ Remove6(p)
    \/ ElemDelete(p)
    \/ ElemDeleted(p)
    \/ ElemLoad(p)
    \/ ElemStore(p)

SpecConc == InitConc /\ [][NextConc]_vars

\* -------------------------------------------------------------- claims
\* What a caller sees of the store in the current state.
KeysNow == KeysOp(Store).keys

Resident == DOMAIN items

RECURSIVE SumGiven(_)
SumGiven(S) ==
  IF S = {} THEN 0
  ELSE LET k == CHOOSE x \in S : TRUE IN given[k] + SumGiven(S \ {k})

\* C1. Capacity invariant: whenever an operation has returned normally,
\* Cost() is at most the current maxCost (every Add cost of Spec is >= 0).
CapacityInvariant == ret.outcome = "ok" => CostOp(Store) <= maxCost

\* An Add that had to evict and left the store exactly full.
CapacityWitness ==
  /\ ret.op = "Add" /\ ret.outcome = "ok" /\ ret.n = 2
  /\ CostOp(Store) = maxCost

\* C2. Accumulator invariant: Cost() is the sum, over the resident keys, of
\* the cost argument of the Add that inserted the key.
AccumulatorInvariant ==
  /\ Resident \subseteq DOMAIN given
  /\ CostOp(Store) = SumGiven(Resident)

\* A resident key was re-added with a cost other than its own.
AccumulatorWitness ==
  /\ ret.op = "Add" /\ ret.outcome = "ok"
  /\ ret.key \in DOMAIN given /\ given[ret.key] # ret.cost
  /\ Cardinality(Resident) = 2 /\ CostOp(Store) = 2

\* C3. Uniqueness invariant: index and recency list are in 1:1
\* correspondence, no key occurs twice in the list, Len() counts the keys.
UniquenessInvariant ==
  /\ \A k \in DOMAIN items :
       /\ Cardinality({i \in 1..Len(evictList) : evictList[i] = items[k]}) = 1
       /\ elems[items[k]].key = k
  /\ \A i \in 1..Len(evictList) :
       Cardinality({k \in DOMAIN items : items[k] = evictList[i]}) = 1
  /\ \A i, j \in 1..Len(evictList) :
       i # j => elems[evictList[i]].key # elems[evictList[j]].key
  /\ LenOp(Store) = Cardinality(DOMAIN items)

\* An Add that evicted one entry and left two, each in index and list.
UniquenessWitness ==
  /\ ret.op = "Add" /\ ret.n = 1 /\ LenOp(Store) = 2
  /\ Cardinality(DOMAIN items) = 2

\* C4. Recency order is last-touch order: Keys() is the resident keys from
\* the least to the most recently touched (Add, re-Add, Get hit), and the
\* keys an Add or Resize evicts are the least recently touched ones.
KeysInTouchOrder == KeysOp(Store).outcome = "ok" /\ KeysNow = touched

EvictsLeastRecent ==
  ret'.op \in {"Add", "Resize"} /\ ret'.outcome = "ok" =>
    LET order == IF ret'.op = "Add" THEN Touch(touched, ret'.key) ELSE touched
    IN \A i, j \in 1..Len(order) :
         i < j /\ order[j] \notin DOMAIN items' => order[i] \notin DOMAIN items'

RecencyIsTouchOrder == [](KeysInTouchOrder) /\ [][EvictsLeastRecent]_vars

\* A Get hit on the oldest of three keys.
RecencyWitness ==
  /\ ret.op = "Get" /\ ret.ok /\ Len(touched) = 3
  /\ touched[3] = ret.key /\ touched[1] > touched[2]

\* Cost of the n oldest keys of an oldest-first key sequence.
RECURSIVE RunCost(_, _)
RunCost(keys, n) == IF n = 0 THEN 0 ELSE given[keys[n]] + RunCost(keys, n - 1)

\* The length of the shortest oldest-first run whose removal brings total
\* down to the ceiling.
ShortestRun(keys, total, ceiling) ==
  CHOOSE n \in 0..Len(keys) :
    /\ total - RunCost(keys, n) <= ceiling
    /\ \A j \in 0..(n - 1) : total - RunCost(keys, j) > ceiling

\* The callback was called once per key of run, in that order, each call
\* seeing the list and the accumulator already without the key; with no
\* callback installed nothing is called.
CalledInOrder(log, run, lenBefore, totalBefore) ==
  IF onEvict
  THEN /\ Len(log) = Len(run)
       /\ \A i \in 1..Len(run) :
            /\ log[i].key = run[i]
            /\ log[i].len = lenBefore - i
            /\ log[i].total = totalBefore - RunCost(run, i)
  ELSE log = <<>>

\* C5. Add of a new key with 0 <= cost <= maxCost: the key goes to the
\* front, then the shortest oldest-first run that brings the total down to
\* maxCost is removed from the back one entry at a time; the count returned
\* is the length of that run, the callback is called for the run in
\* oldest-first order, the survivors keep their order and the new key is
\* resident and newest.
AddNewKeyEffect ==
  ret'.op = "Add" /\ ret'.key \notin Resident /\ 0 <= ret'.cost /\ ret'.cost <= maxCost =>
    LET before == KeysNow
        total == CostOp(Store) + ret'.cost
        n == ShortestRun(before, total, maxCost)
    IN /\ ret'.outcome = "ok"
       /\ ret'.n = n
       /\ KeysNow' = SubSeq(before, n + 1, Len(before)) \o <<ret'.key>>
       /\ CostOp(Store') = total - RunCost(before, n)
       /\ CalledInOrder(calls', SubSeq(before, 1, n), Len(before) + 1, total)
       /\ maxCost' = maxCost

AddNewKey == [][AddNewKeyEffect]_vars

\* A new key pushed out the oldest of two keys and the other one stayed.
AddNewKeyWitness ==
  /\ ret.op = "Add" /\ ret.outcome = "ok" /\ ret.n = 1
  /\ onEvict /\ Len(calls) = 1
  /\ Len(KeysNow) = 2 /\ KeysNow[2] = ret.key

\* C6. Add of a resident key, whatever the value and the cost argument:
\* the key becomes the newest, its value is the new value, its stored cost
\* is still that of its insertion, Cost(), Len() and the resident keys are
\* unchanged, the callback is not called and 0 is returned.
AddResidentKeyEffect ==
  ret'.op = "Add" /\ ret'.key \in Resident =>
    LET k == ret'.key
    IN /\ ret'.outcome = "ok"
       /\ ret'.n = 0
       /\ calls' = <<>>
       /\ KeysNow' = Touch(KeysNow, k)
       /\ PeekOp(Store', k).ok /\ PeekOp(Store', k).value = ret'.value
       /\ elems'[items'[k]].cost = elems[items[k]].cost
       /\ elems'[items'[k]].cost = given[k]
       /\ CostOp(Store') = CostOp(Store)
       /\ LenOp(Store') = LenOp(Store)
       /\ Resident' = Resident
       /\ maxCost' = maxCost

AddResidentKey == [][AddResidentKeyEffect]_vars

\* A resident key, not the newest, re-added with a cost above the ceiling
\* and with another value.
AddResidentKeyWitness ==
  /\ ret.op = "Add" /\ ret.outcome = "ok" /\ ret.cost > maxCost
  /\ Len(KeysNow) = 3 /\ KeysNow[3] = ret.key
  /\ given[ret.key] = 0 /\ ret.value = "v2"

\* C7. Oversized rejection: an Add with cost > maxCost inserts no key and
\* leaves Cost() and Len() alone; for a key that is not resident it panics
\* with the whole store unchanged and no callback call.
OversizedAddEffect ==
  ret'.op = "Add" /\ ret'.cost > maxCost =>
    /\ Resident' = Resident
    /\ CostOp(Store') = CostOp(Store)
    /\ LenOp(Store') = LenOp(Store)
    /\ ret'.key \notin Resident =>
         /\ ret'.outcome = "panic"
         /\ UNCHANGED <<maxCost, evictList, evictListCost, items, elems>>
         /\ calls' = <<>>

OversizedAdd == [][OversizedAddEffect]_vars

\* An oversized Add of a new key hit a store that holds other keys.
OversizedAddWitness ==
  /\ ret.op = "Add" /\ ret.outcome = "panic" /\ ret.cost > maxCost
  /\ ret.key \notin Resident /\ Len(KeysNow) = 2

\* C8. Callback exactly once: with a callback installed, an operation
\* calls it once for each entry that was resident before and is not after,
\* with the entry's key, its value at that time and the cost of its
\* insertion, and for nothing else; Get, Peek, Contains, GetOldest, Keys,
\* Len, Cost and the Add of a resident key call nothing.
CallbackOncePerDeparture ==
  onEvict =>
    LET departed == Resident \ Resident'
    IN /\ \A k \in departed :
            /\ Cardinality({i \in 1..Len(calls') : calls'[i].key = k}) = 1
            /\ \A i \in 1..Len(calls') :
                 calls'[i].key = k =>
                   /\ calls'[i].value = PeekOp(Store, k).value
                   /\ calls'[i].cost = given[k]
       /\ \A i \in 1..Len(calls') : calls'[i].key \in departed
       /\ ret'.op \in {"Get", "Peek", "Contains", "GetOldest", "Keys", "Len", "Cost"} =>
            calls' = <<>>
       /\ ret'.op = "Add" /\ ret'.key \in Resident => calls' = <<>>

CallbackExactlyOnce == [][CallbackOncePerDeparture]_vars

\* A Resize that removed two entries called the callback twice.
CallbackWitness ==
  /\ onEvict /\ ret.op = "Resize" /\ ret.n = 2 /\ Len(calls) = 2
  /\ calls[1].key # calls[2].key /\ calls[1].value = "v2"

\* C9. Purge completeness: after Purge, Len() = 0, Cost() = 0, Keys() is
\* empty, no key is contained, maxCost is unchanged, and the callback has
\* been called exactly once for each entry resident before the call.
PurgeEffect ==
  ret'.op = "Purge" =>
    /\ ret'.outcome = "ok"
    /\ LenOp(Store') = 0
    /\ CostOp(Store') = 0
    /\ KeysNow' = <<>>
    /\ \A k \in KeySet : ~ContainsOp(Store', k)
    /\ maxCost' = maxCost
    /\ onEvict =>
         /\ Len(calls') = Cardinality(Resident)
         /\ \A k \in Resident :
              \E i \in 1..Len(calls') :
                /\ calls'[i].key = k
                /\ calls'[i].value = PeekOp(Store, k).value
                /\ calls'[i].cost = given[k]

PurgeCompleteness == [][PurgeEffect]_vars

\* A Purge of three entries of positive total cost, the callback not being
\* called in recency order.
PurgeWitness ==
  /\ ret.op = "Purge" /\ onEvict /\ Len(calls) = 3
  /\ calls[1].key = 2 /\ calls[2].key = 1 /\ calls[1].cost + calls[2].cost = 2

\* C10. Resize(m) with m > 0 sets the ceiling to m; when m is below the
\* total it removes the shortest oldest-first run that brings Cost() down
\* to m, calls the callback once per removed entry and returns their
\* number; otherwise it removes nothing, calls nothing, returns 0 and
\* leaves the order unchanged.
ResizeEffect ==
  ret'.op = "Resize" /\ ret'.m > 0 =>
    LET before == KeysNow
        total == CostOp(Store)
        n == IF ret'.m < total THEN ShortestRun(before, total, ret'.m) ELSE 0
    IN /\ ret'.outcome = "ok"
       /\ maxCost' = ret'.m
       /\ ret'.n = n
       /\ ret'.m < total => n > 0
       /\ KeysNow' = SubSeq(before, n + 1, Len(before))
       /\ CostOp(Store') = total - RunCost(before, n)
       /\ CalledInOrder(calls', SubSeq(before, 1, n), Len(before), total)

ResizePositive == [][ResizeEffect]_vars

\* A shrinking Resize removed the oldest entry and kept two.
ResizeWitness ==
  /\ ret.op = "Resize" /\ ret.outcome = "ok" /\ ret.n = 1 /\ ret.m = 1
  /\ Len(KeysNow) = 2 /\ onEvict /\ Len(calls) = 1

\* The entry a resident key has in store c.
EntryOf(c, k) == c.elems[c.items[k]]

\* Nothing of the store changes.
StoreUnchanged == UNCHANGED <<maxCost, evictList, evictListCost, items, elems, onEvict>>

\* The callback was called for key k alone, with the entry k had before.
CalledOnlyFor(k) ==
  IF onEvict
  THEN calls' = <<[key |-> k, value |-> EntryOf(Store, k).value, cost |-> given[k],
                   total |-> CostOp(Store) - given[k], ceiling |-> maxCost,
                   resident |-> FALSE, len |-> LenOp(Store) - 1]>>
  ELSE calls' = <<>>

\* Every key resident after the step has the value and the cost it had before.
EntriesKept == \A j \in Resident' : j \in Resident /\ EntryOf(Store', j) = EntryOf(Store, j)

\* C11. Resize(m) with m <= 0 panics and leaves the store as it was:
\* maxCost, entries, recency order and Cost() unchanged, no callback call.
ResizeNonPositiveEffect ==
  ret'.op = "Resize" /\ ret'.m <= 0 =>
    /\ ret'.outcome = "panic"
    /\ StoreUnchanged
    /\ KeysNow' = KeysNow
    /\ CostOp(Store') = CostOp(Store)
    /\ calls' = <<>>

ResizeNonPositive == [][ResizeNonPositiveEffect]_vars

\* A Resize(0) on a full store of two entries.
ResizeNonPositiveWitness ==
  /\ ret.op = "Resize" /\ ret.m = 0 /\ ret.outcome = "panic"
  /\ Len(KeysNow) = 2 /\ CostOp(Store) = maxCost

\* C12. Remove(k) of a resident key returns true, removes k alone, lowers
\* Cost() by k's cost and Len() by 1, calls the callback once for k and
\* leaves the other entries and their order as they were; of a key that is
\* not resident it returns false and changes nothing.
RemoveEffect ==
  ret'.op = "Remove" =>
    LET k == ret'.key
    IN IF k \in Resident
       THEN /\ ret'.ok /\ ret'.outcome = "ok"
            /\ Resident' = Resident \ {k}
            /\ CostOp(Store') = CostOp(Store) - EntryOf(Store, k).cost
            /\ LenOp(Store') = LenOp(Store) - 1
            /\ CalledOnlyFor(k)
            /\ KeysNow' = Without(KeysNow, k)
            /\ EntriesKept
            /\ maxCost' = maxCost
       ELSE /\ ~ret'.ok /\ ret'.outcome = "ok"
            /\ StoreUnchanged
            /\ calls' = <<>>

RemoveKey == [][RemoveEffect]_vars

\* The middle one of three keys was removed, at positive cost.
RemoveWitness ==
  /\ ret.op = "Remove" /\ ret.ok /\ onEvict /\ Len(calls) = 1
  /\ calls[1].cost > 0 /\ KeysNow = <<1, 3>> /\ ret.key = 2

\* C13. RemoveOldest() on a non-empty store removes the least recently
\* touched entry, the first of Keys() and the one GetOldest() reports,
\* returns its key and value with found = true, calls the callback once
\* and keeps the order of the rest; on an empty store it returns
\* found = false and changes nothing.
RemoveOldestEffect ==
  ret'.op = "RemoveOldest" =>
    IF LenOp(Store) > 0
    THEN LET k == KeysNow[1]
             g == GetOldestOp(Store)
         IN /\ ret'.ok /\ ret'.outcome = "ok"
            /\ k = touched[1]
            /\ g.ok /\ g.key = k /\ g.value = EntryOf(Store, k).value
            /\ ret'.key = k /\ ret'.value = g.value
            /\ Resident' = Resident \ {k}
            /\ CalledOnlyFor(k)
            /\ KeysNow' = Tail(KeysNow)
            /\ EntriesKept
    ELSE /\ ~ret'.ok /\ ret'.outcome = "ok"
         /\ ret'.key = Nil /\ ret'.value = NilValue
         /\ StoreUnchanged
         /\ calls' = <<>>

RemoveOldestEntry == [][RemoveOldestEffect]_vars

\* The oldest of three keys was removed; it had been re-added with "v2".
RemoveOldestWitness ==
  /\ ret.op = "RemoveOldest" /\ ret.ok /\ ret.value = "v2"
  /\ Len(KeysNow) = 2 /\ onEvict /\ Len(calls) = 1

\* C14. Get(k): a hit returns found = true with the value k holds and
\* makes k the newest, the other keys keeping their order; a miss returns
\* found = false and leaves the order alone; either way resident keys,
\* entries, Len(), Cost() and maxCost are unchanged and nothing is called.
GetEffect ==
  ret'.op = "Get" =>
    LET k == ret'.key
    IN /\ ret'.outcome = "ok"
       /\ IF k \in Resident
          THEN /\ ret'.ok
               /\ ret'.value = EntryOf(Store, k).value
               /\ KeysNow' = Touch(KeysNow, k)
          ELSE /\ ~ret'.ok
               /\ ret'.value = NilValue
               /\ KeysNow' = KeysNow
       /\ Resident' = Resident
       /\ EntriesKept
       /\ LenOp(Store') = LenOp(Store)
       /\ CostOp(Store') = CostOp(Store)
       /\ maxCost' = maxCost
       /\ calls' = <<>>

GetKey == [][GetEffect]_vars

\* A hit on the middle one of three keys.
GetWitness ==
  /\ ret.op = "Get" /\ ret.ok /\ ret.value = "v2"
  /\ KeysNow = <<3, 1, 2>> /\ ret.key = 2

\* C15. Peek, Contains, GetOldest, Keys, Len and Cost change nothing of
\* the store and call nothing; and when a Peek hit on the oldest of two
\* keys is followed by the Add of a new key that has to evict, the peeked
\* key is evicted, and the other one is not when one eviction is enough.
ReadOnlyEffect ==
  /\ ret'.op \in {"Peek", "Contains", "GetOldest", "Keys", "Len", "Cost"} =>
       /\ ret'.outcome = "ok"
       /\ StoreUnchanged
       /\ calls' = <<>>
  /\ /\ ret.op = "Peek" /\ ret.ok /\ Len(KeysNow) = 2 /\ KeysNow[1] = ret.key
     /\ ret'.op = "Add" /\ ret'.key \notin Resident /\ ret'.n >= 1
     => /\ ret.key \notin Resident'
        /\ ret'.n = 1 => KeysNow[2] \in Resident'

ReadOnlyAccessors == [][ReadOnlyEffect]_vars

\* A Peek hit on the oldest of two keys of a full store: the key is still
\* the oldest, so the next Add of a new key has to evict it.
ReadOnlyWitness ==
  /\ ret.op = "Peek" /\ ret.ok /\ ret.key = 1
  /\ KeysNow = <<1, 2>> /\ CostOp(Store) = maxCost

\* C17 as claimed. On return of every operation and at every call of the
\* callback the accumulator is at most maxCost.
NoViolationWindow ==
  /\ ret.outcome = "ok" => CostOp(Store) <= maxCost
  /\ \A i \in 1..Len(calls) : calls[i].total <= calls[i].ceiling

\* C17. With every Add cost >= 0: on return of every operation, and at
\* every callback call made by Remove, RemoveOldest or Purge, the
\* accumulator is at most maxCost; of the callback calls of one Add or
\* Resize the last one sees the accumulator at most maxCost and every
\* earlier one sees it above maxCost.
WindowOnlyMidEviction ==
  /\ ret.outcome = "ok" => CostOp(Store) <= maxCost
  /\ ret.op \in {"Remove", "RemoveOldest", "Purge"} =>
       \A i \in 1..Len(calls) : calls[i].total <= calls[i].ceiling
  /\ ret.op \in {"Add", "Resize"} =>
       \A i \in 1..Len(calls) :
         (calls[i].total <= calls[i].ceiling) <=> (i = Len(calls))

\* An Add evicted two entries; the first callback call saw the accumulator
\* above maxCost.
WindowWitness ==
  /\ ret.op = "Add" /\ ret.outcome = "ok" /\ Len(calls) = 2
  /\ calls[1].total > calls[1].ceiling /\ calls[2].total <= calls[2].ceiling

\* What the i-th callback call of a step sees when every entry is taken out
\* of index, list and accumulator before its call.
SeesEntryGone(i) ==
  LET added == ret'.op = "Add" /\ ret'.outcome = "ok" /\ ret'.key \notin Resident
      lenBefore == LenOp(Store) + (IF added THEN 1 ELSE 0)
      totalBefore == CostOp(Store) + (IF added THEN ret'.cost ELSE 0)
      gone == [j \in 1..i |-> calls'[j].key]
  IN /\ ~calls'[i].resident
     /\ calls'[i].len = lenBefore - i
     /\ calls'[i].total = totalBefore - RunCost(gone, i)

\* C19 as claimed. Every callback call, of whatever operation, sees its
\* entry out of the index and the list and its cost out of the accumulator.
AlwaysDepartedFirst == [][\A i \in 1..Len(calls') : SeesEntryGone(i)]_vars

\* C19. A callback call made by Remove, RemoveOldest or an eviction of Add
\* or Resize sees its entry out of index and list and its cost out of the
\* accumulator; a callback call made by Purge sees its entry still in the
\* index, and list and accumulator as they were before the Purge.
DepartedUnlessPurgeEffect ==
  /\ ret'.op # "Purge" => \A i \in 1..Len(calls') : SeesEntryGone(i)
  /\ ret'.op = "Purge" =>
       \A i \in 1..Len(calls') :
         /\ calls'[i].resident
         /\ calls'[i].len = LenOp(Store)
         /\ calls'[i].total = CostOp(Store)

DepartedUnlessPurge == [][DepartedUnlessPurgeEffect]_vars

\* A Purge of two entries: the second call still saw its entry resident and
\* the accumulator not yet reset.
DepartedWitness ==
  /\ ret.op = "Purge" /\ Len(calls) = 2
  /\ calls[2].resident /\ calls[2].len = 2 /\ calls[2].total = 2

\* C18 as claimed. Every resident entry has a cost >= 0, Cost() >= 0, and a
\* Remove or RemoveOldest leaves Cost() no higher than it was; this also
\* when Add is passed a negative cost.
NonNegativeCosts ==
  /\ \A k \in Resident : EntryOf(Store, k).cost >= 0
  /\ CostOp(Store) >= 0

\* C16. Eviction count under uniform cost: on a fresh store with ceiling M,
\* after N distinct keys were added one at a time, each at the same cost c
\* (0 < c <= M), Len() is min(N, M \div c), the resident keys are the last
\* Len() keys added, and the counts returned by the N Adds sum to N - Len();
\* for M = 128, c = 2, N = 256 that is Len() = 64 and a sum of 192.
UniformEviction ==
  LET N == tally.n
      fit == maxCost \div tally.c
      L == IF N <= fit THEN N ELSE fit
  IN /\ ret.outcome = "ok"
     /\ LenOp(Store) = L
     /\ KeysNow = [i \in 1..L |-> N - L + i]
     /\ tally.sum = N - L
     /\ (maxCost = 128 /\ tally.c = 2 /\ N = 256) => (LenOp(Store) = 64 /\ tally.sum = 192)

\* The README run at its end: 256 keys of cost 2 under a ceiling of 128.
UniformWitness ==
  /\ maxCost = ReadmeCeil /\ tally.c = ReadmeCost /\ tally.n = ReadmeAdds
  /\ LenOp(Store) = 64 /\ tally.sum = 192

\* The sum of the costs of the entries the index holds.
RECURSIVE SumCosts(_, _)
SumCosts(c, S) ==
  IF S = {} THEN 0
  ELSE LET k == CHOOSE x \in S : TRUE
       IN c.elems[c.items[k]].cost + SumCosts(c, S \ {k})

\* The elements met walking the list from e by next, up to the sentinel (or
\* a nil pointer, or fuel elements).
RECURSIVE Forward(_, _)
Forward(e, fuel) ==
  IF e = Root \/ e = Nil \/ fuel = 0 THEN <<>>
  ELSE <<e>> \o Forward(links.next[e], fuel - 1)

ListNow == Forward(links.next[Root], Cardinality(DOMAIN elems))

\* The list is whole: a ring through the sentinel, prev undoing next, every
\* element of it marked as the list's, and len counting them.
ListWhole ==
  LET l == ListNow
      at(i) == IF i < 1 \/ i > Len(l) THEN Root ELSE l[i]
  IN /\ links.len = Len(l)
     /\ \A i \in 0..Len(l) : links.next[at(i)] = at(i + 1) /\ links.prev[at(i + 1)] = at(i)
     /\ \A i, j \in 1..Len(l) : i # j => l[i] # l[j]
     /\ \A e \in DOMAIN elems : links.list[e] <=> e \in Range(l)

\* The accumulator is the sum of the resident costs, index and list are 1:1,
\* and the accumulator is within the ceiling.
Structural ==
  /\ \A k \in DOMAIN items : items[k] # Nil
  /\ evictListCost = SumCosts(Store, DOMAIN items)
  /\ ListWhole
  /\ \A k \in DOMAIN items : items[k] \in Range(ListNow) /\ elems[items[k]].key = k
  /\ \A e \in Range(ListNow) :
       elems[e].key \in DOMAIN items /\ items[elems[e].key] = e
  /\ links.len = Cardinality(DOMAIN items)
  /\ evictListCost <= maxCost

AllReturned == \A p \in ConcProcs : procs[p].pc = "done"

\* C20. Not safe for concurrent use: two calls of Add or Remove, interleaved
\* access by access, can both return and leave a structural invariant
\* broken (the state ConcurrentBreaks); when the callers hold a mutex around
\* each call, the invariants hold whenever the mutex is free, so also after
\* both have returned, and no call ends in a fatal error or in a panic other
\* than that of Add's size check.
SerialisedIsSafe ==
  /\ (mutex.used /\ mutex.holder = Nil) => Structural
  /\ (mutex.used /\ AllReturned) => mutex.holder = Nil
  /\ mutex.used =>
       \A p \in ConcProcs :
         /\ procs[p].outcome # "fatal"
         /\ procs[p].outcome = "panic" =>
              (procs[p].op = "Add" /\ procs[p].cost > maxCost)

\* Without a mutex: two Adds of distinct new keys have both returned normally
\* and the accumulator is not the sum of the resident costs.
ConcurrentBreaks ==
  /\ ~mutex.used /\ AllReturned
  /\ \A p \in ConcProcs : procs[p].op = "Add" /\ procs[p].outcome = "ok"
  /\ procs[1].key # procs[2].key
  /\ Resident = {1, 2}
  /\ evictListCost # SumCosts(Store, DOMAIN items)

====
